---- MODULE Spec2Model ----
(***************************************************************************)
(* Kernel NPEM LED backend of ledmon (src/lib/kernel_npem.c).              *)
(*                                                                         *)
(* The enclosure is a directory of sysfs LED nodes; the backend translates *)
(* IBPI patterns to NPEM capability bits, probes which nodes exist, reads  *)
(* them back into a register value and writes a one-bit register value     *)
(* node by node.                                                           *)
(***************************************************************************)
EXTENDS Integers, Sequences, FiniteSets, TLC

VARIABLES
    fs,       \* the sysfs LED nodes of the enclosure
    last,     \* the last call made by a sequential caller, and what it returned
    prevSet,  \* the pattern set by the call before it, when that call set one
    callers   \* where each concurrent caller stands inside kernel_npem_set_slot

vars == <<fs, last, prevSet, callers>>

(***************************************************************************)
(* Bounds of the model.                                                    *)
(***************************************************************************)
\* Largest numeric pattern value a caller passes (the enum goes on beyond it).
MaxPattern == 12
\* Largest number of nodes holding a non-zero brightness when the model starts.
MaxLit == 1
\* Largest number of nodes that exist but cannot be read, or cannot be written.
MaxFaulty == 1
\* The nodes of the first MaxHotplug descriptors can come and go.
MaxHotplug == 2

(***************************************************************************)
(* enum led_ibpi_pattern (libled.h) and status_t (status.h).               *)
(***************************************************************************)
LED_IBPI_PATTERN_UNKNOWN == 0
LED_IBPI_PATTERN_NONE == 1
LED_IBPI_PATTERN_NORMAL == 2
LED_IBPI_PATTERN_ONESHOT_NORMAL == 3
LED_IBPI_PATTERN_DEGRADED == 4
LED_IBPI_PATTERN_HOTSPARE == 5
LED_IBPI_PATTERN_REBUILD == 6
LED_IBPI_PATTERN_FAILED_ARRAY == 7
LED_IBPI_PATTERN_PFA == 8
LED_IBPI_PATTERN_FAILED_DRIVE == 9
LED_IBPI_PATTERN_LOCATE == 10
LED_IBPI_PATTERN_LOCATE_OFF == 11

STATUS_SUCCESS == "STATUS_SUCCESS"
STATUS_INVALID_STATE == "STATUS_INVALID_STATE"

(***************************************************************************)
(* NPEM capability bits.                                                   *)
(***************************************************************************)
PCI_NPEM_OK_CAP == 4
PCI_NPEM_LOCATE_CAP == 8
PCI_NPEM_FAIL_CAP == 16
PCI_NPEM_REBUILD_CAP == 32
PCI_NPEM_PFA_CAP == 64
PCI_NPEM_HOT_SPARE_CAP == 128
PCI_NPEM_CRA_CAP == 256
PCI_NPEM_FA_CAP == 512

(***************************************************************************)
(* C operators on u32 values.                                              *)
(***************************************************************************)
\* a & b, bit by bit.
RECURSIVE BitAndBits(_, _)
BitAndBits(a, b) ==
    IF a = 0 \/ b = 0 THEN 0
    ELSE (a % 2) * (b % 2) + 2 * BitAndBits(a \div 2, b \div 2)

\* a & b, four bits at a time through a table of the sixteen-by-sixteen cases.
NibbleAnd == [x \in 0..15 |-> [y \in 0..15 |-> BitAndBits(x, y)]]

RECURSIVE BitAnd(_, _)
BitAnd(a, b) ==
    IF a = 0 \/ b = 0 THEN 0
    ELSE NibbleAnd[a % 16][b % 16] + 16 * BitAnd(a \div 16, b \div 16)

BitOr(a, b) == a + b - BitAnd(a, b)

ARRAY_SIZE(arr) == Len(arr)

(***************************************************************************)
(* The two static tables.                                                  *)
(***************************************************************************)
\* Faulty variant: the Locate-off entry is declared first.
ibpi_to_npem_capability_locate_off_first ==
    << [ibpi |-> LED_IBPI_PATTERN_LOCATE_OFF,     value |-> PCI_NPEM_OK_CAP],
       [ibpi |-> LED_IBPI_PATTERN_NORMAL,         value |-> PCI_NPEM_OK_CAP],
       [ibpi |-> LED_IBPI_PATTERN_ONESHOT_NORMAL, value |-> PCI_NPEM_OK_CAP],
       [ibpi |-> LED_IBPI_PATTERN_DEGRADED,       value |-> PCI_NPEM_CRA_CAP],
       [ibpi |-> LED_IBPI_PATTERN_HOTSPARE,       value |-> PCI_NPEM_HOT_SPARE_CAP],
       [ibpi |-> LED_IBPI_PATTERN_REBUILD,        value |-> PCI_NPEM_REBUILD_CAP],
       [ibpi |-> LED_IBPI_PATTERN_FAILED_ARRAY,   value |-> PCI_NPEM_FA_CAP],
       [ibpi |-> LED_IBPI_PATTERN_PFA,            value |-> PCI_NPEM_PFA_CAP],
       [ibpi |-> LED_IBPI_PATTERN_FAILED_DRIVE,   value |-> PCI_NPEM_FAIL_CAP],
       [ibpi |-> LED_IBPI_PATTERN_LOCATE,         value |-> PCI_NPEM_LOCATE_CAP],
       [ibpi |-> LED_IBPI_PATTERN_UNKNOWN,        value |-> 0] >>

ibpi_to_npem_capability ==
    << [ibpi |-> LED_IBPI_PATTERN_NORMAL,         value |-> PCI_NPEM_OK_CAP],
       [ibpi |-> LED_IBPI_PATTERN_ONESHOT_NORMAL, value |-> PCI_NPEM_OK_CAP],
       [ibpi |-> LED_IBPI_PATTERN_DEGRADED,       value |-> PCI_NPEM_CRA_CAP],
       [ibpi |-> LED_IBPI_PATTERN_HOTSPARE,       value |-> PCI_NPEM_HOT_SPARE_CAP],
       [ibpi |-> LED_IBPI_PATTERN_REBUILD,        value |-> PCI_NPEM_REBUILD_CAP],
       [ibpi |-> LED_IBPI_PATTERN_FAILED_ARRAY,   value |-> PCI_NPEM_FA_CAP],
       [ibpi |-> LED_IBPI_PATTERN_PFA,            value |-> PCI_NPEM_PFA_CAP],
       [ibpi |-> LED_IBPI_PATTERN_FAILED_DRIVE,   value |-> PCI_NPEM_FAIL_CAP],
       [ibpi |-> LED_IBPI_PATTERN_LOCATE,         value |-> PCI_NPEM_LOCATE_CAP],
       [ibpi |-> LED_IBPI_PATTERN_LOCATE_OFF,     value |-> PCI_NPEM_OK_CAP],
       [ibpi |-> LED_IBPI_PATTERN_UNKNOWN,        value |-> 0] >>

\* Faulty variant: the rebuild descriptor comes before the fail descriptor.
kernel_npem_leds_rebuild_first ==
    << [bitmask |-> PCI_NPEM_OK_CAP,        sysfs_led_name |-> "enclosure:ok"],
       [bitmask |-> PCI_NPEM_LOCATE_CAP,    sysfs_led_name |-> "enclosure:locate"],
       [bitmask |-> PCI_NPEM_REBUILD_CAP,   sysfs_led_name |-> "enclosure:rebuild"],
       [bitmask |-> PCI_NPEM_FAIL_CAP,      sysfs_led_name |-> "enclosure:fail"],
       [bitmask |-> PCI_NPEM_PFA_CAP,       sysfs_led_name |-> "enclosure:pfa"],
       [bitmask |-> PCI_NPEM_HOT_SPARE_CAP, sysfs_led_name |-> "enclosure:hotspare"],
       [bitmask |-> PCI_NPEM_CRA_CAP,       sysfs_led_name |-> "enclosure:ica"],
       [bitmask |-> PCI_NPEM_FA_CAP,        sysfs_led_name |-> "enclosure:ifa"] >>

\* Faulty variant: the ifa descriptor carries the bit of the ica descriptor.
kernel_npem_leds_ifa_as_ica ==
    << [bitmask |-> PCI_NPEM_OK_CAP,        sysfs_led_name |-> "enclosure:ok"],
       [bitmask |-> PCI_NPEM_LOCATE_CAP,    sysfs_led_name |-> "enclosure:locate"],
       [bitmask |-> PCI_NPEM_FAIL_CAP,      sysfs_led_name |-> "enclosure:fail"],
       [bitmask |-> PCI_NPEM_REBUILD_CAP,   sysfs_led_name |-> "enclosure:rebuild"],
       [bitmask |-> PCI_NPEM_PFA_CAP,       sysfs_led_name |-> "enclosure:pfa"],
       [bitmask |-> PCI_NPEM_HOT_SPARE_CAP, sysfs_led_name |-> "enclosure:hotspare"],
       [bitmask |-> PCI_NPEM_CRA_CAP,       sysfs_led_name |-> "enclosure:ica"],
       [bitmask |-> PCI_NPEM_CRA_CAP,       sysfs_led_name |-> "enclosure:ifa"] >>

kernel_npem_leds ==
    << [bitmask |-> PCI_NPEM_OK_CAP,        sysfs_led_name |-> "enclosure:ok"],
       [bitmask |-> PCI_NPEM_LOCATE_CAP,    sysfs_led_name |-> "enclosure:locate"],
       [bitmask |-> PCI_NPEM_FAIL_CAP,      sysfs_led_name |-> "enclosure:fail"],
       [bitmask |-> PCI_NPEM_REBUILD_CAP,   sysfs_led_name |-> "enclosure:rebuild"],
       [bitmask |-> PCI_NPEM_PFA_CAP,       sysfs_led_name |-> "enclosure:pfa"],
       [bitmask |-> PCI_NPEM_HOT_SPARE_CAP, sysfs_led_name |-> "enclosure:hotspare"],
       [bitmask |-> PCI_NPEM_CRA_CAP,       sysfs_led_name |-> "enclosure:ica"],
       [bitmask |-> PCI_NPEM_FA_CAP,        sysfs_led_name |-> "enclosure:ifa"] >>

(***************************************************************************)
(* Table lookups (utils.c): a do-while scan that returns the first match   *)
(* and otherwise the last entry of the array.                              *)
(***************************************************************************)
RECURSIVE get_by_ibpi_scan(_, _, _, _)
get_by_ibpi_scan(ibpi, ibpi2val_arr, ibpi2val_arr_cnt, cnt) ==
    LET tmp == ibpi2val_arr[cnt + 1] IN
    IF tmp.ibpi = ibpi THEN tmp
    ELSE IF cnt + 1 = ibpi2val_arr_cnt THEN tmp
    ELSE get_by_ibpi_scan(ibpi, ibpi2val_arr, ibpi2val_arr_cnt, cnt + 1)

get_by_ibpi(ibpi, ibpi2val_arr, ibpi2val_arr_cnt) ==
    get_by_ibpi_scan(ibpi, ibpi2val_arr, ibpi2val_arr_cnt, 0)

RECURSIVE get_by_bits_scan(_, _, _, _)
get_by_bits_scan(bits, ibpi2val_arr, ibpi2val_arr_cnt, cnt) ==
    LET tmp == ibpi2val_arr[cnt + 1] IN
    IF BitAnd(tmp.value, bits) # 0 THEN tmp
    ELSE IF cnt + 1 = ibpi2val_arr_cnt THEN tmp
    ELSE get_by_bits_scan(bits, ibpi2val_arr, ibpi2val_arr_cnt, cnt + 1)

get_by_bits(bits, ibpi2val_arr, ibpi2val_arr_cnt) ==
    get_by_bits_scan(bits, ibpi2val_arr, ibpi2val_arr_cnt, 0)

(***************************************************************************)
(* The filesystem under one enclosure root.  fs.nodes is the set of        *)
(* brightness files that exist, fs.brightness the integer each holds,      *)
(* fs.unreadable / fs.readonly the nodes whose read / write fails.         *)
(***************************************************************************)
SysfsPath == "/sys/bus/pci/devices/0000:01:00.0"

\* basename(3) of the enclosure root.
basename(path) ==
    CASE path = SysfsPath -> "0000:01:00.0"

\* "%s/leds/%s:%s/brightness"
make_led_path(sysfs_path, sysfs_led_name) ==
    <<sysfs_path, "leds", basename(sysfs_path), sysfs_led_name, "brightness">>

LedPaths ==
    { make_led_path(SysfsPath, kernel_npem_leds[i].sysfs_led_name) :
        i \in 1..ARRAY_SIZE(kernel_npem_leds) }

\* stat(2): 0 when the path exists, -1 otherwise.
stat(f, path) == IF path \in f.nodes THEN 0 ELSE -1

\* get_int (utils.c): the integer in the file, or defval when it cannot be read.
get_int(f, path, defval) ==
    IF path \in f.nodes /\ path \notin f.unreadable
    THEN f.brightness[path]
    ELSE defval

\* The kernel's brightness store: the text written, parsed as an integer.
brightness_store(text) ==
    CASE text = "0" -> 0
      [] text = "1" -> 1

\* buf_write (utils.c): write the text to the file; a failure changes nothing.
buf_write(f, path, text) ==
    IF path \in f.nodes /\ path \notin f.readonly
    THEN [f EXCEPT !.brightness[path] = brightness_store(text)]
    ELSE f

(***************************************************************************)
(* The backend.  Every function returns a record: ret is the C return      *)
(* value, io the number of filesystem calls (stat, read, write) it issued, *)
(* and fs the filesystem it leaves (for the functions that write).         *)
(***************************************************************************)
RECURSIVE read_kernel_npem_register_loop(_, _, _, _)
read_kernel_npem_register_loop(f, sysfs_path, i, reg) ==
    IF i > ARRAY_SIZE(kernel_npem_leds) THEN reg
    ELSE LET led_path == make_led_path(sysfs_path, kernel_npem_leds[i].sysfs_led_name)
             bit == IF get_int(f, led_path, 0) # 0
                    THEN kernel_npem_leds[i].bitmask ELSE 0
         IN read_kernel_npem_register_loop(f, sysfs_path, i + 1, BitOr(reg, bit))

\* Faulty variant: reg starts out holding the OK bit instead of 0.
read_kernel_npem_register_dirty(f, sysfs_path) ==
    [ret |-> read_kernel_npem_register_loop(f, sysfs_path, 1, PCI_NPEM_OK_CAP),
     io  |-> ARRAY_SIZE(kernel_npem_leds)]

read_kernel_npem_register(f, sysfs_path) ==
    [ret |-> read_kernel_npem_register_loop(f, sysfs_path, 1, 0),
     io  |-> ARRAY_SIZE(kernel_npem_leds)]

\* Faulty variant: the writer lights the target node and never writes "0".
write_kernel_npem_led_set_only(w, sysfs_path, val, i) ==
    LET led_path == make_led_path(sysfs_path, kernel_npem_leds[i].sysfs_led_name)
    IN IF stat(w.fs, led_path) = 0 /\ BitAnd(val, kernel_npem_leds[i].bitmask) # 0
       THEN [ret |-> 0, fs |-> buf_write(w.fs, led_path, "1"), io |-> w.io + 2]
       ELSE [ret |-> 0, fs |-> w.fs, io |-> w.io + 1]

\* Faulty variant: the writer flips the target node instead of setting it.
write_kernel_npem_led_toggle(w, sysfs_path, val, i) ==
    LET led_path == make_led_path(sysfs_path, kernel_npem_leds[i].sysfs_led_name)
        val_text == IF BitAnd(val, kernel_npem_leds[i].bitmask) # 0
                       /\ get_int(w.fs, led_path, 0) = 0 THEN "1" ELSE "0"
    IN IF stat(w.fs, led_path) = 0
       THEN [ret |-> 0, fs |-> buf_write(w.fs, led_path, val_text), io |-> w.io + 2]
       ELSE [ret |-> 0, fs |-> w.fs, io |-> w.io + 1]

\* Faulty variant: no stat, and a write that creates the file it does not find.
write_kernel_npem_led_creating(w, sysfs_path, val, i) ==
    LET led_path == make_led_path(sysfs_path, kernel_npem_leds[i].sysfs_led_name)
        val_text == IF BitAnd(val, kernel_npem_leds[i].bitmask) # 0 THEN "1" ELSE "0"
    IN [ret |-> 0,
        fs  |-> buf_write([w.fs EXCEPT !.nodes = @ \cup {led_path}], led_path, val_text),
        io  |-> w.io + 1]

\* One pass of the writer's loop: the node of descriptor i.
write_kernel_npem_led(w, sysfs_path, val, i) ==
    LET led_path == make_led_path(sysfs_path, kernel_npem_leds[i].sysfs_led_name)
        val_text == IF BitAnd(val, kernel_npem_leds[i].bitmask) # 0 THEN "1" ELSE "0"
    IN IF stat(w.fs, led_path) = 0
       THEN [ret |-> 0, fs |-> buf_write(w.fs, led_path, val_text), io |-> w.io + 2]
       ELSE [ret |-> 0, fs |-> w.fs, io |-> w.io + 1]

\* Faulty variant: the loop stops at the first node whose write fails.
RECURSIVE write_kernel_npem_register_loop_abort(_, _, _, _)
write_kernel_npem_register_loop_abort(w, sysfs_path, val, i) ==
    IF i > ARRAY_SIZE(kernel_npem_leds) THEN w
    ELSE LET led_path == make_led_path(sysfs_path, kernel_npem_leds[i].sysfs_led_name)
         IN IF stat(w.fs, led_path) = 0 /\ led_path \in w.fs.readonly
            THEN [ret |-> 0, fs |-> w.fs, io |-> w.io + 2]
            ELSE write_kernel_npem_register_loop_abort(
                     write_kernel_npem_led(w, sysfs_path, val, i), sysfs_path, val, i + 1)

RECURSIVE write_kernel_npem_register_loop(_, _, _, _)
write_kernel_npem_register_loop(w, sysfs_path, val, i) ==
    IF i > ARRAY_SIZE(kernel_npem_leds) THEN w
    ELSE write_kernel_npem_register_loop(
             write_kernel_npem_led(w, sysfs_path, val, i), sysfs_path, val, i + 1)

\* The writer's loop cut short: the filesystem after its first k passes.
RECURSIVE write_kernel_npem_register_prefix(_, _, _, _)
write_kernel_npem_register_prefix(f, sysfs_path, val, k) ==
    IF k = 0 THEN f
    ELSE write_kernel_npem_led(
             [ret |-> 0,
              fs  |-> write_kernel_npem_register_prefix(f, sysfs_path, val, k - 1),
              io  |-> 0],
             sysfs_path, val, k).fs

write_kernel_npem_register(f, sysfs_path, val) ==
    write_kernel_npem_register_loop([ret |-> 0, fs |-> f, io |-> 0], sysfs_path, val, 1)

RECURSIVE kernel_npem_supported_mask_loop(_, _, _, _)
kernel_npem_supported_mask_loop(f, sysfs_path, i, supported) ==
    IF i > ARRAY_SIZE(kernel_npem_leds) THEN supported
    ELSE LET led_path == make_led_path(sysfs_path, kernel_npem_leds[i].sysfs_led_name)
         IN kernel_npem_supported_mask_loop(f, sysfs_path, i + 1,
                IF stat(f, led_path) = 0
                THEN BitOr(supported, kernel_npem_leds[i].bitmask)
                ELSE supported)

\* Faulty variant: a node counts as supported when it is lit, not when it exists.
kernel_npem_supported_mask_by_value(f, sysfs_path) ==
    [ret |-> read_kernel_npem_register_loop(f, sysfs_path, 1, 0),
     io  |-> ARRAY_SIZE(kernel_npem_leds)]

kernel_npem_supported_mask(f, sysfs_path) ==
    [ret |-> kernel_npem_supported_mask_loop(f, sysfs_path, 1, 0),
     io  |-> ARRAY_SIZE(kernel_npem_leds)]

is_kernel_npem_present(f, path) ==
    LET m == kernel_npem_supported_mask(f, path)
    IN [ret |-> IF m.ret # 0 THEN 1 ELSE 0, io |-> m.io]

\* Faulty variant: a register value of 0 is reported as Normal.
kernel_npem_get_state_dark_is_normal(f, slot) ==
    LET path == slot.slot_spec.cntrl.sysfs_path
        reg == read_kernel_npem_register(f, path)
        ibpi2val == get_by_bits(reg.ret, ibpi_to_npem_capability,
                                ARRAY_SIZE(ibpi_to_npem_capability))
    IN [ret |-> IF reg.ret = 0 THEN LED_IBPI_PATTERN_NORMAL ELSE ibpi2val.ibpi,
        io  |-> reg.io]

kernel_npem_get_state(f, slot) ==
    LET path == slot.slot_spec.cntrl.sysfs_path
        reg == read_kernel_npem_register(f, path)
        ibpi2val == get_by_bits(reg.ret, ibpi_to_npem_capability,
                                ARRAY_SIZE(ibpi_to_npem_capability))
    IN [ret |-> ibpi2val.ibpi, io |-> reg.io]

\* Faulty variant: no exception for the OK bit.
kernel_npem_set_slot_check_no_carveout(f, sysfs_path, state) ==
    LET ibpi2val == get_by_ibpi(state, ibpi_to_npem_capability,
                                ARRAY_SIZE(ibpi_to_npem_capability))
    IN IF ibpi2val.ibpi = LED_IBPI_PATTERN_UNKNOWN
       THEN [ret |-> STATUS_INVALID_STATE, requested |-> 0, io |-> 0]
       ELSE LET requested == ibpi2val.value
                supported == kernel_npem_supported_mask(f, sysfs_path)
            IN IF BitAnd(requested, supported.ret) = 0
               THEN [ret |-> STATUS_INVALID_STATE, requested |-> requested,
                     io |-> supported.io]
               ELSE [ret |-> STATUS_SUCCESS, requested |-> requested,
                     io |-> supported.io]

\* Faulty variant: the capability check is skipped.
kernel_npem_set_slot_check_unchecked(f, sysfs_path, state) ==
    LET ibpi2val == get_by_ibpi(state, ibpi_to_npem_capability,
                                ARRAY_SIZE(ibpi_to_npem_capability))
    IN IF ibpi2val.ibpi = LED_IBPI_PATTERN_UNKNOWN
       THEN [ret |-> STATUS_INVALID_STATE, requested |-> 0, io |-> 0]
       ELSE [ret |-> STATUS_SUCCESS, requested |-> ibpi2val.value, io |-> 0]

\* kernel_npem_set_slot up to the call of the writer: the lookup, the probe
\* and the decision.  ret is STATUS_INVALID_STATE when the function returns
\* there, STATUS_SUCCESS when it goes on to write `requested`.
kernel_npem_set_slot_check(f, sysfs_path, state) ==
    LET ibpi2val == get_by_ibpi(state, ibpi_to_npem_capability,
                                ARRAY_SIZE(ibpi_to_npem_capability))
    IN IF ibpi2val.ibpi = LED_IBPI_PATTERN_UNKNOWN
       THEN [ret |-> STATUS_INVALID_STATE, requested |-> 0, io |-> 0]
       ELSE LET requested == ibpi2val.value
                supported == kernel_npem_supported_mask(f, sysfs_path)
            IN IF BitAnd(requested, supported.ret) = 0 /\ requested # PCI_NPEM_OK_CAP
               THEN [ret |-> STATUS_INVALID_STATE, requested |-> requested,
                     io |-> supported.io]
               ELSE [ret |-> STATUS_SUCCESS, requested |-> requested,
                     io |-> supported.io]

\* Faulty variant: the supported mask is written instead of the requested bit.
kernel_npem_set_slot_writes_supported(f, sysfs_path, state) ==
    LET c == kernel_npem_set_slot_check(f, sysfs_path, state)
    IN IF c.ret = STATUS_INVALID_STATE
       THEN [ret |-> STATUS_INVALID_STATE, fs |-> f, io |-> c.io]
       ELSE LET w == write_kernel_npem_register(f, sysfs_path,
                         kernel_npem_supported_mask(f, sysfs_path).ret)
            IN [ret |-> STATUS_SUCCESS, fs |-> w.fs, io |-> c.io + w.io]

kernel_npem_set_slot(f, sysfs_path, state) ==
    LET c == kernel_npem_set_slot_check(f, sysfs_path, state)
    IN IF c.ret = STATUS_INVALID_STATE
       THEN [ret |-> STATUS_INVALID_STATE, fs |-> f, io |-> c.io]
       ELSE LET w == write_kernel_npem_register(f, sysfs_path, c.requested)
            IN [ret |-> STATUS_SUCCESS, fs |-> w.fs, io |-> c.io + w.io]

kernel_npem_set_state(f, slot, state) ==
    kernel_npem_set_slot(f, slot.slot_spec.cntrl.sysfs_path, state)

\* Faulty variant: the upper end of the range is rejected too.
kernel_npem_write_ge(f, device, ibpi) ==
    IF ibpi < LED_IBPI_PATTERN_NORMAL \/ ibpi >= LED_IBPI_PATTERN_LOCATE_OFF
    THEN [ret |-> STATUS_INVALID_STATE, fs |-> f, io |-> 0]
    ELSE kernel_npem_set_slot(f, device.cntrl.sysfs_path, ibpi)

kernel_npem_write(f, device, ibpi) ==
    IF ibpi < LED_IBPI_PATTERN_NORMAL \/ ibpi > LED_IBPI_PATTERN_LOCATE_OFF
    THEN [ret |-> STATUS_INVALID_STATE, fs |-> f, io |-> 0]
    ELSE kernel_npem_set_slot(f, device.cntrl.sysfs_path, ibpi)

(***************************************************************************)
(* One enclosure, its slot and its block device; sequential callers.       *)
(***************************************************************************)
Patterns == 0..MaxPattern

TheCntrl == [sysfs_path |-> SysfsPath]
TheSlot == [slot_spec |-> [cntrl |-> TheCntrl]]
TheDevice == [cntrl |-> TheCntrl]

\* The record of a call: the entry point, its pattern argument, the status
\* it returned, the pattern or flag it returned, and its filesystem calls.
Call(op, state, status, value, io) ==
    [op |-> op, state |-> state, status |-> status, value |-> value, io |-> io]

\* The pattern of the call before the last one, when that call set it.
SetBy(call) ==
    IF call.op \in {"set_state", "write"} /\ call.status = STATUS_SUCCESS
    THEN {call.state} ELSE {}

\* The concurrent callers, and a caller outside kernel_npem_set_slot.
Callers == {"A", "B"}
Idle == [pc |-> "idle", val |-> 0, i |-> 0, status |-> ""]

\* A non-zero brightness other than the 1 the writer writes.
LED_FULL == 255

\* The filesystem with the nodes n, those of lit at full brightness, the others
\* off, and the nodes of unreadable failing every read.
Enclosure(n, lit, unreadable) ==
    [nodes |-> n,
     brightness |-> [p \in LedPaths |-> IF p \in lit THEN LED_FULL ELSE 0],
     unreadable |-> unreadable,
     readonly |-> {}]

\* Any set of nodes exists, at most MaxLit of them lit; reads and writes work.
Init ==
    /\ \E n \in SUBSET LedPaths :
          \E lit \in SUBSET n :
             /\ Cardinality(lit) <= MaxLit
             /\ fs = Enclosure(n, lit, {})
    /\ last = Call("none", LED_IBPI_PATTERN_UNKNOWN, "", 0, 0)
    /\ prevSet = {}
    /\ callers = [c \in Callers |-> Idle]

SetState(state) ==
    \E r \in {kernel_npem_set_state(fs, TheSlot, state)} :
    /\ fs' = r.fs
    /\ last' = Call("set_state", state, r.ret, 0, r.io)
    /\ prevSet' = SetBy(last)
    /\ UNCHANGED callers

GetState ==
    \E r \in {kernel_npem_get_state(fs, TheSlot)} :
    /\ fs' = fs
    /\ last' = Call("get_state", LED_IBPI_PATTERN_UNKNOWN, "", r.ret, r.io)
    /\ prevSet' = SetBy(last)
    /\ UNCHANGED callers

IsPresent ==
    \E r \in {is_kernel_npem_present(fs, SysfsPath)} :
    /\ fs' = fs
    /\ last' = Call("present", LED_IBPI_PATTERN_UNKNOWN, "", r.ret, r.io)
    /\ prevSet' = SetBy(last)
    /\ UNCHANGED callers

Write(ibpi) ==
    \E r \in {kernel_npem_write(fs, TheDevice, ibpi)} :
    /\ fs' = r.fs
    /\ last' = Call("write", ibpi, r.ret, 0, r.io)
    /\ prevSet' = SetBy(last)
    /\ UNCHANGED callers

Next ==
    \/ \E state \in Patterns : SetState(state)
    \/ GetState
    \/ IsPresent
    \/ \E ibpi \in Patterns : Write(ibpi)

Spec == Init /\ [][Next]_vars

(***************************************************************************)
(* Reads that fail.  The enclosure starts with up to MaxFaulty nodes that  *)
(* exist but cannot be read; the callers only read.                        *)
(***************************************************************************)
InitUnreadable ==
    /\ \E n \in SUBSET LedPaths :
          \E lit \in SUBSET n, unreadable \in SUBSET n :
             /\ Cardinality(lit) <= MaxLit
             /\ Cardinality(unreadable) <= MaxFaulty
             /\ fs = Enclosure(n, lit, unreadable)
    /\ last = Call("none", LED_IBPI_PATTERN_UNKNOWN, "", 0, 0)
    /\ prevSet = {}
    /\ callers = [c \in Callers |-> Idle]

NextUnreadable ==
    \/ GetState
    \/ IsPresent

SpecUnreadable == InitUnreadable /\ [][NextUnreadable]_vars

(***************************************************************************)
(* Concurrent callers of kernel_npem_set_slot on the same enclosure path.  *)
(* A caller runs the function up to the writer in one step (no node is     *)
(* created or removed here, so the probe sees the same nodes whenever it   *)
(* runs), then one pass of the writer's loop per step, then returns.       *)
(***************************************************************************)
\* The enclosure has every LED node, or every one but enclosure:ok.
InitConc ==
    /\ \E n \in {LedPaths, LedPaths \ {make_led_path(SysfsPath, "enclosure:ok")}} :
          \E lit \in SUBSET n :
             /\ Cardinality(lit) <= MaxLit
             /\ fs = Enclosure(n, lit, {})
    /\ last = Call("none", LED_IBPI_PATTERN_UNKNOWN, "", 0, 0)
    /\ prevSet = {}
    /\ callers = [c \in Callers |-> Idle]

Enter(c, state) ==
    /\ callers[c].pc = "idle"
    /\ \E k \in {kernel_npem_set_slot_check(fs, SysfsPath, state)} :
          callers' = [callers EXCEPT ![c] =
              IF k.ret = STATUS_INVALID_STATE
              THEN [pc |-> "done", val |-> k.requested, i |-> 0, status |-> k.ret]
              ELSE [pc |-> "write", val |-> k.requested, i |-> 1, status |-> ""]]
    /\ UNCHANGED <<fs, last, prevSet>>

\* Faulty variant: the writer goes by the supported mask of the probe.
WriteLedByProbedMask(c) ==
    /\ callers[c].pc = "write"
    /\ callers[c].i <= ARRAY_SIZE(kernel_npem_leds)
    /\ fs' = IF BitAnd(callers[c].supported, kernel_npem_leds[callers[c].i].bitmask) # 0
             THEN write_kernel_npem_led([ret |-> 0, fs |-> fs, io |-> 0], SysfsPath,
                                        callers[c].val, callers[c].i).fs
             ELSE fs
    /\ callers' = [callers EXCEPT ![c].i = @ + 1]
    /\ UNCHANGED <<last, prevSet>>

WriteLed(c) ==
    /\ callers[c].pc = "write"
    /\ callers[c].i <= ARRAY_SIZE(kernel_npem_leds)
    /\ fs' = write_kernel_npem_led([ret |-> 0, fs |-> fs, io |-> 0], SysfsPath,
                                   callers[c].val, callers[c].i).fs
    /\ callers' = [callers EXCEPT ![c].i = @ + 1]
    /\ UNCHANGED <<last, prevSet>>

Return(c) ==
    /\ callers[c].pc = "write"
    /\ callers[c].i > ARRAY_SIZE(kernel_npem_leds)
    /\ callers' = [callers EXCEPT ![c].pc = "done", ![c].status = STATUS_SUCCESS]
    /\ UNCHANGED <<fs, last, prevSet>>

NextConc ==
    \/ \E c \in Callers, state \in Patterns : Enter(c, state)
    \/ \E c \in Callers : WriteLed(c)
    \/ \E c \in Callers : Return(c)

SpecConc == InitConc /\ [][NextConc]_vars

(***************************************************************************)
(* A caller that dies inside the writer.  One process calls                *)
(* kernel_npem_set_slot again and again, one pass of the writer's loop per *)
(* step, and can be killed between any two passes; nothing undoes or       *)
(* completes the writes of a killed call.                                  *)
(***************************************************************************)
TheCaller == "A"

Crash(c) ==
    /\ callers[c].pc = "write"
    /\ callers' = [callers EXCEPT ![c].pc = "crashed"]
    /\ UNCHANGED <<fs, last, prevSet>>

\* The caller is back from one call and ready to make the next.
Again(c) ==
    /\ callers[c].pc = "done"
    /\ callers' = [callers EXCEPT ![c] = Idle]
    /\ UNCHANGED <<fs, last, prevSet>>

NextCrash ==
    \/ \E state \in Patterns : Enter(TheCaller, state)
    \/ WriteLed(TheCaller)
    \/ Return(TheCaller)
    \/ Again(TheCaller)
    \/ Crash(TheCaller)

SpecCrash == InitConc /\ [][NextCrash]_vars

(***************************************************************************)
(* Reading back any combination of nodes.  Any set of nodes exists and any *)
(* of them hold a non-zero value (the hardware, or a writer that died,     *)
(* left them so); the callers read.                                        *)
(***************************************************************************)
InitDecode ==
    /\ \E n \in SUBSET LedPaths :
          \E lit \in SUBSET n : fs = Enclosure(n, lit, {})
    /\ last = Call("none", LED_IBPI_PATTERN_UNKNOWN, "", 0, 0)
    /\ prevSet = {}
    /\ callers = [c \in Callers |-> Idle]

NextDecode ==
    \/ GetState
    \/ IsPresent

SpecDecode == InitDecode /\ [][NextDecode]_vars

(***************************************************************************)
(* Nodes that come and go.  One process calls kernel_npem_set_slot once,   *)
(* one system call per step: each stat of the probe, then each pass of the *)
(* writer.  Before, between and after these steps the kernel can register  *)
(* or unregister the LED nodes of the first MaxHotplug descriptors.  The   *)
(* caller's record keeps the supported mask its probe has gathered.        *)
(***************************************************************************)
Hotplugged ==
    { make_led_path(SysfsPath, kernel_npem_leds[i].sysfs_led_name) : i \in 1..MaxHotplug }

InitHotplug ==
    /\ \E gone \in SUBSET Hotplugged :
          \E lit \in SUBSET (LedPaths \ gone) :
             /\ Cardinality(lit) <= MaxLit
             /\ fs = Enclosure(LedPaths \ gone, lit, {})
    /\ last = Call("none", LED_IBPI_PATTERN_UNKNOWN, "", 0, 0)
    /\ prevSet = {}
    /\ callers = [c \in Callers |-> Idle]

\* kernel_npem_set_slot up to the probe: the lookup of the pattern.
EnterLookup(c, state) ==
    /\ callers[c].pc = "idle"
    /\ \E ibpi2val \in {get_by_ibpi(state, ibpi_to_npem_capability,
                                     ARRAY_SIZE(ibpi_to_npem_capability))} :
          callers' = [callers EXCEPT ![c] =
              IF ibpi2val.ibpi = LED_IBPI_PATTERN_UNKNOWN
              THEN [pc |-> "done", val |-> 0, i |-> 0,
                    status |-> STATUS_INVALID_STATE, supported |-> 0]
              ELSE [pc |-> "probe", val |-> ibpi2val.value, i |-> 1,
                    status |-> "", supported |-> 0]]
    /\ UNCHANGED <<fs, last, prevSet>>

\* One pass of the loop of kernel_npem_supported_mask: the stat of descriptor i.
ProbeLed(c) ==
    /\ callers[c].pc = "probe"
    /\ callers[c].i <= ARRAY_SIZE(kernel_npem_leds)
    /\ callers' = [callers EXCEPT
          ![c].supported =
              IF stat(fs, make_led_path(SysfsPath,
                              kernel_npem_leds[callers[c].i].sysfs_led_name)) = 0
              THEN BitOr(@, kernel_npem_leds[callers[c].i].bitmask)
              ELSE @,
          ![c].i = @ + 1]
    /\ UNCHANGED <<fs, last, prevSet>>

\* The probe is over: the decision of kernel_npem_set_slot on its result.
Decide(c) ==
    /\ callers[c].pc = "probe"
    /\ callers[c].i > ARRAY_SIZE(kernel_npem_leds)
    /\ callers' = [callers EXCEPT ![c] =
          IF BitAnd(callers[c].val, callers[c].supported) = 0
             /\ callers[c].val # PCI_NPEM_OK_CAP
          THEN [@ EXCEPT !.pc = "done", !.i = 0, !.status = STATUS_INVALID_STATE]
          ELSE [@ EXCEPT !.pc = "write", !.i = 1]]
    /\ UNCHANGED <<fs, last, prevSet>>

\* The kernel registers an LED node, dark or at full brightness.
Appear(p) ==
    /\ p \notin fs.nodes
    /\ \E b \in {0, LED_FULL} :
          fs' = [fs EXCEPT !.nodes = @ \cup {p}, !.brightness[p] = b]
    /\ UNCHANGED <<last, prevSet, callers>>

\* The kernel unregisters an LED node.
Disappear(p) ==
    /\ p \in fs.nodes
    /\ fs' = [fs EXCEPT !.nodes = @ \ {p}, !.brightness[p] = 0]
    /\ UNCHANGED <<last, prevSet, callers>>

NextHotplug ==
    \/ \E state \in Patterns : EnterLookup(TheCaller, state)
    \/ ProbeLed(TheCaller)
    \/ Decide(TheCaller)
    \/ WriteLed(TheCaller)
    \/ Return(TheCaller)
    \/ \E p \in Hotplugged : Appear(p)
    \/ \E p \in Hotplugged : Disappear(p)

SpecHotplug == InitHotplug /\ [][NextHotplug]_vars

(***************************************************************************)
(* Writes that fail.  The enclosure has every LED node, or every one but   *)
(* enclosure:ok, and up to MaxFaulty of them refuse every write            *)
(* (permission denied, I/O error); the callers set one pattern after       *)
(* another.                                                                *)
(***************************************************************************)
EnclosureReadonly(n, lit, readonly) ==
    [Enclosure(n, lit, {}) EXCEPT !.readonly = readonly]

InitReadonly ==
    /\ \E n \in {LedPaths, LedPaths \ {make_led_path(SysfsPath, "enclosure:ok")}} :
          \E lit \in SUBSET n, readonly \in SUBSET n :
             /\ Cardinality(lit) <= MaxLit
             /\ Cardinality(readonly) <= MaxFaulty
             /\ fs = EnclosureReadonly(n, lit, readonly)
    /\ last = Call("none", LED_IBPI_PATTERN_UNKNOWN, "", 0, 0)
    /\ prevSet = {}
    /\ callers = [c \in Callers |-> Idle]

NextReadonly ==
    \E state \in Patterns : SetState(state)

SpecReadonly == InitReadonly /\ [][NextReadonly]_vars

(***************************************************************************)
(* Vocabulary of the properties.                                           *)
(***************************************************************************)
ValidRange == LED_IBPI_PATTERN_NORMAL..LED_IBPI_PATTERN_LOCATE_OFF

\* The table entry of a pattern, and the capability bit it resolves to.
EntryOf(ibpi) ==
    get_by_ibpi(ibpi, ibpi_to_npem_capability, ARRAY_SIZE(ibpi_to_npem_capability))
ResolvedBit(ibpi) == EntryOf(ibpi).value

SupportedMask(f) == kernel_npem_supported_mask(f, SysfsPath).ret

LedPath(name) == make_led_path(SysfsPath, name)
OkPath == LedPath("enclosure:ok")
LocatePath == LedPath("enclosure:locate")
FailPath == LedPath("enclosure:fail")
RebuildPath == LedPath("enclosure:rebuild")

Lit(f) == { p \in f.nodes : f.brightness[p] # 0 }

IsSet(call) == call.op = "set_state"

(***************************************************************************)
(* C1.  A Get-state that follows a successful Set-state of a pattern of    *)
(* the valid command range whose capability bit is in the supported mask   *)
(* returns a pattern that resolves to the bit of the pattern requested.    *)
(***************************************************************************)
C1_SetThenGet ==
    (last.op = "get_state") =>
        \A p \in prevSet :
            (p \in ValidRange /\ BitAnd(ResolvedBit(p), SupportedMask(fs)) # 0)
                => ResolvedBit(last.value) = ResolvedBit(p)

\* Locate-off was set on an enclosure with an ok node; Get-state answers Normal.
C1_Witness ==
    /\ last.op = "get_state"
    /\ prevSet = {LED_IBPI_PATTERN_LOCATE_OFF}
    /\ OkPath \in fs.nodes
    /\ last.value = LED_IBPI_PATTERN_NORMAL

(***************************************************************************)
(* C2, as stated.  Set-state with Normal or LocateOff returns success and  *)
(* leaves every node value 0.                                              *)
(***************************************************************************)
C2_AllZero ==
    (IsSet(last) /\ last.state \in {LED_IBPI_PATTERN_NORMAL, LED_IBPI_PATTERN_LOCATE_OFF})
        => /\ last.status = STATUS_SUCCESS
           /\ \A p \in LedPaths : fs.brightness[p] = 0

(***************************************************************************)
(* C2, amended.  Set-state with Normal or LocateOff returns success for    *)
(* any supported mask, and leaves every node other than the ok node at 0;  *)
(* the ok node, when it exists, is left at 1.                              *)
(***************************************************************************)
C2_OnlyOkLit ==
    (IsSet(last) /\ last.state \in {LED_IBPI_PATTERN_NORMAL, LED_IBPI_PATTERN_LOCATE_OFF})
        => /\ last.status = STATUS_SUCCESS
           /\ \A p \in LedPaths \ {OkPath} : fs.brightness[p] = 0
           /\ OkPath \in fs.nodes => fs.brightness[OkPath] = 1

\* Normal was set on an enclosure with no node at all, and on one with an ok node.
C2_Witness ==
    /\ IsSet(last) /\ last.state = LED_IBPI_PATTERN_NORMAL
    /\ last.status = STATUS_SUCCESS
    /\ \/ fs.nodes = {}
       \/ OkPath \in fs.nodes /\ fs.brightness[OkPath] = 1 /\ Cardinality(fs.nodes) > 1

(***************************************************************************)
(* C3.  A Set-state whose pattern resolves to the OK bit reaches the       *)
(* writer whether or not the ok node exists: it returns success, it has    *)
(* gone through the writer's loop, and every node other than ok holds 0.   *)
(***************************************************************************)
C3_ClearAlwaysPossible ==
    (IsSet(last) /\ ResolvedBit(last.state) = PCI_NPEM_OK_CAP)
        => /\ last.status = STATUS_SUCCESS
           /\ last.io >= 2 * ARRAY_SIZE(kernel_npem_leds)
           /\ \A p \in fs.nodes \ {OkPath} : fs.brightness[p] = 0

\* Oneshot-normal was set on an enclosure that has LED nodes but no ok node.
C3_Witness ==
    /\ IsSet(last) /\ last.state = LED_IBPI_PATTERN_ONESHOT_NORMAL
    /\ OkPath \notin fs.nodes /\ Cardinality(fs.nodes) >= 2
    /\ last.status = STATUS_SUCCESS
    /\ Lit(fs) = {}

(***************************************************************************)
(* C4.  A Set-state whose pattern has no table entry, or whose bit is      *)
(* neither in the supported mask nor the OK bit, returns                   *)
(* STATUS_INVALID_STATE and leaves the filesystem as it was.               *)
(***************************************************************************)
Unsupported(f, ibpi) ==
    \/ EntryOf(ibpi).ibpi = LED_IBPI_PATTERN_UNKNOWN
    \/ /\ BitAnd(ResolvedBit(ibpi), SupportedMask(f)) = 0
       /\ ResolvedBit(ibpi) # PCI_NPEM_OK_CAP

C4_UnsupportedChangesNothing ==
    [][ (IsSet(last') /\ Unsupported(fs, last'.state))
            => (last'.status = STATUS_INVALID_STATE /\ fs' = fs) ]_vars

\* Rebuild was refused on an enclosure with only ok and fail, fail being lit.
C4_Witness ==
    /\ IsSet(last) /\ last.state = LED_IBPI_PATTERN_REBUILD
    /\ fs.nodes = {OkPath, FailPath}
    /\ last.status = STATUS_INVALID_STATE
    /\ Lit(fs) = {FailPath}

\* A pattern the table has no entry for was refused while a node was lit.
C4_WitnessNoEntry ==
    /\ IsSet(last) /\ last.state = LED_IBPI_PATTERN_NONE
    /\ last.status = STATUS_INVALID_STATE /\ last.io = 0
    /\ Lit(fs) # {}

(***************************************************************************)
(* C5.  The presence predicate answers 0 exactly when no LED node exists   *)
(* and 1 exactly when at least one does, whatever the nodes hold.          *)
(***************************************************************************)
C5_PresenceIsExistence ==
    (last.op = "present") =>
        /\ last.value \in {0, 1}
        /\ last.value = 0 <=> fs.nodes = {}
        /\ last.value = 1 <=> fs.nodes # {}

\* The enclosure is present although every node that exists holds 0.
C5_Witness ==
    /\ last.op = "present" /\ last.value = 1
    /\ fs.nodes # {} /\ Lit(fs) = {}

(***************************************************************************)
(* C7.  A Set-state that repeats the successful Set-state before it, with  *)
(* the same pattern, returns success again and changes no node.            *)
(***************************************************************************)
C7_SetIdempotent ==
    [][ (IsSet(last) /\ IsSet(last') /\ prevSet' = {last'.state})
            => (fs' = fs /\ last'.status = last.status) ]_vars

\* Failed-drive was set twice in a row and the fail node is lit.
C7_Witness ==
    /\ IsSet(last) /\ last.state = LED_IBPI_PATTERN_FAILED_DRIVE
    /\ prevSet = {LED_IBPI_PATTERN_FAILED_DRIVE}
    /\ last.status = STATUS_SUCCESS
    /\ Lit(fs) = {FailPath}

(***************************************************************************)
(* C8.  kernel_npem_write rejects a pattern outside Normal..LocateOff      *)
(* with STATUS_INVALID_STATE without one filesystem call, and for a        *)
(* pattern inside the range does what Set-state does on the same path.     *)
(***************************************************************************)
C8_WriteRangeCheck ==
    [][ (last'.op = "write") =>
          IF last'.state \notin ValidRange
          THEN /\ last'.status = STATUS_INVALID_STATE
               /\ last'.io = 0
               /\ fs' = fs
          ELSE \E r \in {kernel_npem_set_state(fs, TheSlot, last'.state)} :
                  /\ last'.status = r.ret
                  /\ last'.io = r.io
                  /\ fs' = r.fs ]_vars

\* Locate-off, the last pattern of the range, went through and lit ok.
C8_Witness ==
    /\ last.op = "write" /\ last.state = LED_IBPI_PATTERN_LOCATE_OFF
    /\ last.status = STATUS_SUCCESS
    /\ last.io > 0
    /\ Lit(fs) = {OkPath}

\* A pattern past the range was rejected with no filesystem call.
C8_WitnessRejected ==
    /\ last.op = "write" /\ last.state > LED_IBPI_PATTERN_LOCATE_OFF
    /\ last.status = STATUS_INVALID_STATE
    /\ last.io = 0

(***************************************************************************)
(* C10.  When Set-state goes on to write (no write fails, nobody else      *)
(* writes), the node of the resolved bit holds 1 and every other node      *)
(* that exists holds 0, so at most one node is lit.                        *)
(***************************************************************************)
C10_OnlyTargetLit ==
    (IsSet(last) /\ last.status = STATUS_SUCCESS) =>
        /\ \A i \in 1..ARRAY_SIZE(kernel_npem_leds) :
              LET p == LedPath(kernel_npem_leds[i].sysfs_led_name) IN
              p \in fs.nodes =>
                 fs.brightness[p] =
                    IF kernel_npem_leds[i].bitmask = ResolvedBit(last.state) THEN 1 ELSE 0
        /\ Cardinality(Lit(fs)) <= 1

\* The scenario: only ok and fail exist, Failed-drive is set, fail=1 and ok=0.
C10_Witness ==
    /\ IsSet(last) /\ last.state = LED_IBPI_PATTERN_FAILED_DRIVE
    /\ last.status = STATUS_SUCCESS
    /\ fs.nodes = {OkPath, FailPath}
    /\ fs.brightness[FailPath] = 1 /\ fs.brightness[OkPath] = 0

(***************************************************************************)
(* C6.  Get-state always returns a pattern of the table, and returns       *)
(* Unknown when no node that exists and can be read holds a non-zero       *)
(* value: a missing or unreadable node counts as not set.                  *)
(***************************************************************************)
TablePatterns ==
    { ibpi_to_npem_capability[k].ibpi : k \in 1..ARRAY_SIZE(ibpi_to_npem_capability) }

C6_GetStateTotal ==
    (last.op = "get_state") =>
        /\ last.value \in TablePatterns
        /\ (\A p \in LedPaths :
               p \notin fs.nodes \/ p \in fs.unreadable \/ fs.brightness[p] = 0)
               => last.value = LED_IBPI_PATTERN_UNKNOWN

\* The only lit node cannot be read, and Get-state answers Unknown.
C6_Witness ==
    /\ last.op = "get_state"
    /\ Lit(fs) = {FailPath} /\ fs.unreadable = {FailPath}
    /\ last.value = LED_IBPI_PATTERN_UNKNOWN

\* No node exists at all, and Get-state answers Unknown.
C6_WitnessEmpty ==
    /\ last.op = "get_state"
    /\ fs.nodes = {}
    /\ last.value = LED_IBPI_PATTERN_UNKNOWN

(***************************************************************************)
(* C9.  Two callers of Set-state on one enclosure take no lock: a caller   *)
(* inside the writer's loop can always take its next pass, whatever the    *)
(* other caller is doing.  Once both have returned success each node holds *)
(* what one of the two wrote to it, node by node, so the whole can be      *)
(* neither caller's target.                                                *)
(***************************************************************************)
TargetOf(c, i) ==
    IF BitAnd(callers[c].val, kernel_npem_leds[i].bitmask) # 0 THEN 1 ELSE 0

BothSucceeded ==
    \A c \in Callers : callers[c].pc = "done" /\ callers[c].status = STATUS_SUCCESS

C9_NoLockNodeByNode ==
    /\ \A c \in Callers :
          (callers[c].pc = "write" /\ callers[c].i <= ARRAY_SIZE(kernel_npem_leds))
              => ENABLED WriteLed(c)
    /\ BothSucceeded =>
          \A i \in 1..ARRAY_SIZE(kernel_npem_leds) :
              LET p == LedPath(kernel_npem_leds[i].sysfs_led_name) IN
              p \in fs.nodes => \E c \in Callers : fs.brightness[p] = TargetOf(c, i)

\* Both callers returned success and two different nodes hold 1.
C9_Witness ==
    /\ BothSucceeded
    /\ Cardinality(Lit(fs)) = 2
    /\ \A p \in Lit(fs) : fs.brightness[p] = 1

\* Both callers returned success, their target nodes exist, and no node holds 1.
C9_WitnessNoneLit ==
    /\ BothSucceeded
    /\ callers["A"].val = PCI_NPEM_LOCATE_CAP /\ callers["B"].val = PCI_NPEM_FAIL_CAP
    /\ {LocatePath, FailPath} \subseteq fs.nodes
    /\ Lit(fs) = {}

(***************************************************************************)
(* C11.  The writer is best-effort.  Once kernel_npem_set_slot has decided *)
(* to write, it returns success although some writes fail; every node that *)
(* exists got one stat and one write (none is retried, none is left out    *)
(* after a failure); a node that accepts writes holds its target value and *)
(* a node that refuses them holds what it held.                            *)
(***************************************************************************)
C11_BestEffortWriter ==
    [][ (IsSet(last') /\ ~Unsupported(fs, last'.state)) =>
          /\ last'.status = STATUS_SUCCESS
          /\ last'.io = 2 * ARRAY_SIZE(kernel_npem_leds) + Cardinality(fs.nodes)
          /\ fs'.nodes = fs.nodes
          /\ \A i \in 1..ARRAY_SIZE(kernel_npem_leds) :
                LET p == LedPath(kernel_npem_leds[i].sysfs_led_name) IN
                p \in fs.nodes =>
                   fs'.brightness[p] =
                      IF p \in fs.readonly THEN fs.brightness[p]
                      ELSE IF kernel_npem_leds[i].bitmask = ResolvedBit(last'.state)
                           THEN 1 ELSE 0 ]_vars

\* The write to the lit locate node failed and left it lit; the fail node,
\* which comes after it in the loop, was set all the same.
C11_Witness ==
    /\ IsSet(last) /\ last.state = LED_IBPI_PATTERN_FAILED_DRIVE
    /\ last.status = STATUS_SUCCESS
    /\ fs.readonly = {LocatePath}
    /\ fs.brightness[LocatePath] = LED_FULL
    /\ FailPath \in fs.nodes /\ fs.brightness[FailPath] = 1

(***************************************************************************)
(* C12, as stated.  On an enclosure showing Rebuild, a Set-state of        *)
(* Failed-drive cut between two node writes can leave a state that is      *)
(* neither the old one nor the new one, and in particular one where the    *)
(* rebuild node is cleared and the fail node is not yet set.               *)
(***************************************************************************)
\* The caller is back from a successful Set-state of Rebuild.
RebuildSet ==
    /\ callers[TheCaller].pc = "done"
    /\ callers[TheCaller].status = STATUS_SUCCESS
    /\ callers[TheCaller].val = PCI_NPEM_REBUILD_CAP

ShowsRebuild(f) ==
    /\ {FailPath, RebuildPath} \subseteq f.nodes
    /\ Lit(f) = {RebuildPath}

\* The filesystem a Set-state of `state` killed after k passes leaves behind.
Interrupted(f, state, k) ==
    LET c == kernel_npem_set_slot_check(f, SysfsPath, state)
    IN IF c.ret = STATUS_INVALID_STATE THEN f
       ELSE write_kernel_npem_register_prefix(f, SysfsPath, c.requested, k)

CrashPoints == 0..ARRAY_SIZE(kernel_npem_leds)

NeitherOldNorNew(f, state, k) ==
    /\ Interrupted(f, state, k) # f
    /\ Interrupted(f, state, k) # kernel_npem_set_slot(f, SysfsPath, state).fs

C12_RebuildClearedFailUnset ==
    (RebuildSet /\ ShowsRebuild(fs)) =>
        /\ \E k \in CrashPoints : NeitherOldNorNew(fs, LED_IBPI_PATTERN_FAILED_DRIVE, k)
        /\ \E k \in CrashPoints :
              LET f == Interrupted(fs, LED_IBPI_PATTERN_FAILED_DRIVE, k)
              IN f.brightness[RebuildPath] = 0 /\ f.brightness[FailPath] = 0

(***************************************************************************)
(* C12, amended.  A killed Set-state leaves the nodes its passes reached   *)
(* at their new values and nothing else; on an enclosure showing Rebuild,  *)
(* a Set-state of Failed-drive cut between two node writes can leave a     *)
(* state that is neither the old one nor the new one, namely one where the *)
(* fail node is already set and the rebuild node is not yet cleared.       *)
(***************************************************************************)
C12_NotAtomic ==
    /\ \A c \in Callers :
          callers[c].pc = "crashed" =>
             \A j \in 1..(callers[c].i - 1) :
                LET p == LedPath(kernel_npem_leds[j].sysfs_led_name) IN
                p \in fs.nodes => fs.brightness[p] = TargetOf(c, j)
    /\ (RebuildSet /\ ShowsRebuild(fs)) =>
          \E k \in CrashPoints :
             LET f == Interrupted(fs, LED_IBPI_PATTERN_FAILED_DRIVE, k)
             IN /\ NeitherOldNorNew(fs, LED_IBPI_PATTERN_FAILED_DRIVE, k)
                /\ f.brightness[FailPath] = 1
                /\ f.brightness[RebuildPath] # 0

\* Rebuild was set, then a Set-state of Failed-drive was killed after the pass
\* of the fail node: fail and rebuild are both lit.
C12_Witness ==
    /\ callers[TheCaller].pc = "crashed"
    /\ callers[TheCaller].val = PCI_NPEM_FAIL_CAP
    /\ Lit(fs) = {FailPath, RebuildPath}
    /\ fs.brightness[FailPath] = 1 /\ fs.brightness[RebuildPath] = 1

(***************************************************************************)
(* C13.  Get-state returns the pattern of the first entry of the           *)
(* pattern-capability table whose bit belongs to a node holding a non-zero *)
(* value, and Unknown when there is none.  So it returns Normal whenever   *)
(* the ok node is non-zero, whatever else is lit, and it never returns     *)
(* Oneshot-normal or Locate-off.                                           *)
(***************************************************************************)
\* The capability bits of the nodes that are read as a non-zero value: a node
\* that is missing or cannot be read is read as 0.
LitBits(f) ==
    { kernel_npem_leds[i].bitmask :
        i \in { j \in 1..ARRAY_SIZE(kernel_npem_leds) :
                  get_int(f, LedPath(kernel_npem_leds[j].sysfs_led_name), 0) # 0 } }

\* The table entries whose bit is lit.
Hits(f) ==
    { k \in 1..ARRAY_SIZE(ibpi_to_npem_capability) :
        ibpi_to_npem_capability[k].value \in LitBits(f) }

C13_FirstMatchDecode ==
    (last.op = "get_state") =>
        /\ IF Hits(fs) = {}
           THEN last.value = LED_IBPI_PATTERN_UNKNOWN
           ELSE \E k \in Hits(fs) :
                   /\ \A j \in Hits(fs) : k <= j
                   /\ last.value = ibpi_to_npem_capability[k].ibpi
        /\ OkPath \in Lit(fs) => last.value = LED_IBPI_PATTERN_NORMAL
        /\ last.value \notin {LED_IBPI_PATTERN_ONESHOT_NORMAL, LED_IBPI_PATTERN_LOCATE_OFF}

\* Ok, locate and fail are lit together and Get-state answers Normal.
C13_Witness ==
    /\ last.op = "get_state"
    /\ {OkPath, LocatePath, FailPath} \subseteq Lit(fs)
    /\ last.value = LED_IBPI_PATTERN_NORMAL

\* Fail and rebuild are lit together and Get-state answers Rebuild, the entry
\* declared before Failed-drive.
C13_WitnessTableOrder ==
    /\ last.op = "get_state"
    /\ Lit(fs) = {FailPath, RebuildPath}
    /\ last.value = LED_IBPI_PATTERN_REBUILD

(***************************************************************************)
(* C14.  Each pass of the writer goes by whether its node exists at that   *)
(* moment, not by the supported mask of the probe: a node that exists is   *)
(* written its target value, also when it appeared after the probe; a node *)
(* that does not exist is skipped and nothing changes, also when the probe *)
(* had seen it; and the call returns success all the same.                 *)
(***************************************************************************)
C14_ExistenceAtWriteTime ==
    [][ \A c \in Callers :
          /\ (callers[c].pc = "write" /\ callers'[c].i = callers[c].i + 1) =>
                LET i == callers[c].i
                    p == LedPath(kernel_npem_leds[i].sysfs_led_name)
                IN /\ fs'.nodes = fs.nodes
                   /\ fs'.brightness =
                         IF p \in fs.nodes
                         THEN [fs.brightness EXCEPT ![p] = TargetOf(c, i)]
                         ELSE fs.brightness
          /\ (callers[c].pc = "write" /\ callers'[c].pc = "done") =>
                /\ callers[c].i > ARRAY_SIZE(kernel_npem_leds)
                /\ callers'[c].status = STATUS_SUCCESS ]_vars

\* Normal was set, the probe found no ok node, and the ok node holds 1: it
\* appeared after the stat of the probe and the writer wrote it.
C14_Witness ==
    /\ callers[TheCaller].pc = "done"
    /\ callers[TheCaller].status = STATUS_SUCCESS
    /\ callers[TheCaller].val = PCI_NPEM_OK_CAP
    /\ BitAnd(callers[TheCaller].supported, PCI_NPEM_OK_CAP) = 0
    /\ OkPath \in fs.nodes /\ fs.brightness[OkPath] = 1

\* Locate was set and the probe found the locate node; the node is gone, the
\* call returned success and no node is lit.
C14_WitnessDisappeared ==
    /\ callers[TheCaller].pc = "done"
    /\ callers[TheCaller].status = STATUS_SUCCESS
    /\ callers[TheCaller].val = PCI_NPEM_LOCATE_CAP
    /\ BitAnd(callers[TheCaller].supported, PCI_NPEM_LOCATE_CAP) # 0
    /\ LocatePath \notin fs.nodes
    /\ Lit(fs) = {}

\* Locate was refused because the probe found no locate node, and the node,
\* registered since at full brightness, is there.
C14_WitnessRefusedThenThere ==
    /\ callers[TheCaller].pc = "done"
    /\ callers[TheCaller].status = STATUS_INVALID_STATE
    /\ callers[TheCaller].val = PCI_NPEM_LOCATE_CAP
    /\ LocatePath \in fs.nodes /\ fs.brightness[LocatePath] = LED_FULL

(***************************************************************************)
(* C15.  The two tables agree.  Every non-zero bit of the                  *)
(* pattern-capability table has exactly one node descriptor; every pattern *)
(* from Normal to Locate-off has an entry, and its value is a single bit;  *)
(* the last entry is the sentinel (Unknown, 0).  So a Set-state of a       *)
(* pattern of the range is never refused before the probe, and one that    *)
(* succeeded resolved to the bit of exactly one descriptor.                *)
(***************************************************************************)
\* The descriptors that carry a bit.
DescriptorsOf(bit) ==
    { i \in 1..ARRAY_SIZE(kernel_npem_leds) : kernel_npem_leds[i].bitmask = bit }

\* v has exactly one bit set.
OneBit(v) == v # 0 /\ BitAnd(v, v - 1) = 0

C15_TableConsistency ==
    /\ \A k \in 1..ARRAY_SIZE(ibpi_to_npem_capability) :
          ibpi_to_npem_capability[k].value # 0 =>
             Cardinality(DescriptorsOf(ibpi_to_npem_capability[k].value)) = 1
    /\ \A ibpi \in ValidRange :
          /\ \E k \in 1..ARRAY_SIZE(ibpi_to_npem_capability) :
                ibpi_to_npem_capability[k].ibpi = ibpi
          /\ \A k \in 1..ARRAY_SIZE(ibpi_to_npem_capability) :
                ibpi_to_npem_capability[k].ibpi = ibpi =>
                   OneBit(ibpi_to_npem_capability[k].value)
    /\ ibpi_to_npem_capability[ARRAY_SIZE(ibpi_to_npem_capability)] =
          [ibpi |-> LED_IBPI_PATTERN_UNKNOWN, value |-> 0]
    /\ (IsSet(last) /\ last.state \in ValidRange) => last.io > 0
    /\ (IsSet(last) /\ last.status = STATUS_SUCCESS) =>
          /\ last.state \in ValidRange
          /\ Cardinality(DescriptorsOf(ResolvedBit(last.state))) = 1

\* Failed-array, whose bit belongs to the last descriptor, was set and the
\* ifa node alone is lit.
C15_Witness ==
    /\ IsSet(last) /\ last.state = LED_IBPI_PATTERN_FAILED_ARRAY
    /\ last.status = STATUS_SUCCESS
    /\ Lit(fs) = {LedPath("enclosure:ifa")}

(***************************************************************************)
(* C16.  Get-state and the presence predicate change nothing: not a node   *)
(* value, not the set of nodes.  No call of the backend, Set-state and the *)
(* raw write included, creates or removes a node, so the supported mask is *)
(* the same after the call as before it.                                   *)
(***************************************************************************)
C16_ReadOnlyAndNoNodeChange ==
    [][ /\ last'.op \in {"get_state", "present"} => fs' = fs
        /\ last'.op \in {"get_state", "present", "set_state", "write"} =>
              \/ fs' = fs
              \/ /\ fs'.nodes = fs.nodes
                 /\ SupportedMask(fs') = SupportedMask(fs) ]_vars

\* A node is lit, Get-state has read it as Failed-drive, and it is still lit
\* at the brightness the hardware gave it.
C16_Witness ==
    /\ last.op = "get_state" /\ last.value = LED_IBPI_PATTERN_FAILED_DRIVE
    /\ fs.brightness[FailPath] = LED_FULL
    /\ OkPath \notin fs.nodes

\* Normal was set on an enclosure without an ok node, and there is still none.
C16_WitnessSet ==
    /\ IsSet(last) /\ last.state = LED_IBPI_PATTERN_NORMAL
    /\ last.status = STATUS_SUCCESS
    /\ fs.nodes = {LocatePath, RebuildPath}

(***************************************************************************)
(* C17.  Set-state of Normal, Oneshot-normal or Locate-off returns         *)
(* success.  On an enclosure that has LED nodes but no ok node it leaves   *)
(* every node at 0 and the Get-state that follows returns Unknown, not     *)
(* Normal; on an enclosure that has the ok node it leaves ok at 1 and the  *)
(* Get-state that follows returns Normal.                                  *)
(***************************************************************************)
OkPatterns ==
    {LED_IBPI_PATTERN_NORMAL, LED_IBPI_PATTERN_ONESHOT_NORMAL, LED_IBPI_PATTERN_LOCATE_OFF}

C17_NormalWithoutOkReadsUnknown ==
    /\ (IsSet(last) /\ last.state \in OkPatterns /\ fs.nodes # {}) =>
          /\ last.status = STATUS_SUCCESS
          /\ IF OkPath \in fs.nodes
             THEN fs.brightness[OkPath] = 1
             ELSE \A p \in LedPaths : fs.brightness[p] = 0
    /\ (last.op = "get_state" /\ prevSet # {} /\ prevSet \subseteq OkPatterns
           /\ fs.nodes # {}) =>
          IF OkPath \in fs.nodes
          THEN fs.brightness[OkPath] = 1 /\ last.value = LED_IBPI_PATTERN_NORMAL
          ELSE /\ \A p \in LedPaths : fs.brightness[p] = 0
               /\ last.value = LED_IBPI_PATTERN_UNKNOWN

\* Normal was set on an enclosure with LED nodes but no ok node, and the
\* Get-state after it answered Unknown.
C17_Witness ==
    /\ last.op = "get_state"
    /\ prevSet = {LED_IBPI_PATTERN_NORMAL}
    /\ fs.nodes # {} /\ OkPath \notin fs.nodes
    /\ last.value = LED_IBPI_PATTERN_UNKNOWN

\* Oneshot-normal was set on an enclosure with the ok node, and the Get-state
\* after it answered Normal.
C17_WitnessWithOk ==
    /\ last.op = "get_state"
    /\ prevSet = {LED_IBPI_PATTERN_ONESHOT_NORMAL}
    /\ OkPath \in fs.nodes /\ fs.brightness[OkPath] = 1
    /\ last.value = LED_IBPI_PATTERN_NORMAL
====
